---------------------------- MODULE Spec2Model ----------------------------
(***************************************************************************)
(* Per-store sales forecasting pipeline of hw3-rossmann.py and             *)
(* rf-per-store.py: prepare_data on the train and the test table,          *)
(* remove_closed_stores on the train table, then train_many_models, which  *)
(* splits the test table into closed and open rows, groups both tables by  *)
(* Store, fits one model per test store and writes the submission.         *)
(*                                                                         *)
(* A DataFrame is a record [cols, index, rows]: the ordered column names,  *)
(* the index labels, and one function (column name -> cell) per row.  A    *)
(* Series is a record [index, values].  Numbers in the log2 domain are     *)
(* integers in hundredths; numbers produced by replace/np.power are        *)
(* integers in units of 1/Unit, so that the floor 0.0001 is exactly 1.     *)
(***************************************************************************)
EXTENDS Integers, Sequences, FiniteSets, TLC

VARIABLES pc, has_y, df, train, test, run, closed_store_ids, test_df,
          train_stores, test_stores, pending, open_store_sales, train_scores,
          model, files

vars == <<pc, has_y, df, train, test, run, closed_store_ids, test_df,
          train_stores, test_stores, pending, open_store_sales, train_scores, model, files>>

-----------------------------------------------------------------------------
(* Bounds of the input family *)

\* longest test table of Init
MaxTestRows == 3
MaxSales == 64
\* number of distinct values the stand-in regressor predicts
PredRange == 4

\* store keys, and the lengths of the training table of Init
Stores == {1, 2}
TrainSizes == {1, 2}

-----------------------------------------------------------------------------
(* Program constants *)

\* a missing value of a numeric column, as read_csv yields it
NaN == -1
\* fixed-point unit of linear-domain floats: the floor 0.0001 is 1/Unit
Unit == 10000
\* replace([0], [0.0001]), in units of 1/Unit
Floor == 1
\* np.log2(0.0001) = -13.2877, in hundredths
LogFloor == -1329
\* closed stores are written with Sales 1
ClosedSales == 1
\* the run script of rf-per-store.py calls train_many_models twice
NumRuns == 2

HolidayVars == <<"StateHoliday_0", "StateHoliday_a", "StateHoliday_b", "StateHoliday_c">>
DayVars == <<"Day_1", "Day_2", "Day_3", "Day_4", "Day_5", "Day_6", "Day_7">>
Outfiles == <<"rossmann-lr-per-store.csv", "rossmann-rf-per-store.csv">>
ModelTypes == <<"linear-regression", "random-forest">>

-----------------------------------------------------------------------------
(* Sequences *)

Range(s) == {s[i] : i \in DOMAIN s}
Positions(n) == [i \in 1..n |-> i]
SeqOfSet(S, order) == SelectSeq(order, LAMBDA x : x \in S)

RECURSIVE Pow2Int(_)
Pow2Int(k) == IF k <= 0 THEN 1 ELSE 2 * Pow2Int(k - 1)

RECURSIVE ILog2(_)
ILog2(v) == IF v <= 1 THEN 0 ELSE 1 + ILog2(v \div 2)

RECURSIVE SumSeq(_)
SumSeq(s) == IF s = <<>> THEN 0 ELSE Head(s) + SumSeq(Tail(s))

-----------------------------------------------------------------------------
(* pandas *)

NoTable == [cols |-> <<>>, index |-> <<>>, rows |-> <<>>]
EmptySeries == [index |-> <<>>, values |-> <<>>]
NRows(t) == Len(t.index)
HasCol(t, c) == c \in Range(t.cols)

\* df[mask]: the rows whose position satisfies the mask, labels kept
TakeRows(t, kept) ==
    [cols |-> t.cols,
     index |-> [j \in 1..Len(kept) |-> t.index[kept[j]]],
     rows |-> [j \in 1..Len(kept) |-> t.rows[kept[j]]]]

\* df[c]: a column as a Series
Column(t, c) ==
    [index |-> t.index, values |-> [k \in 1..NRows(t) |-> t.rows[k][c]]]

\* df.drop(labels, axis=1)
DropCols(t, labels) ==
    LET newcols == SelectSeq(t.cols, LAMBDA c : c \notin labels)
    IN [cols |-> newcols,
        index |-> t.index,
        rows |-> [k \in 1..NRows(t) |-> [c \in Range(newcols) |-> t.rows[k][c]]]]

\* df[c] = values, for a sequence of per-row values: replaces the column
\* in place when it exists, appends it as the last column otherwise
SetCol(t, c, values) ==
    LET newcols == IF HasCol(t, c) THEN t.cols ELSE Append(t.cols, c)
    IN [cols |-> newcols,
        index |-> t.index,
        rows |-> [k \in 1..NRows(t) |->
                    [x \in Range(newcols) |-> IF x = c THEN values[k] ELSE t.rows[k][x]]]]

\* df[c] = scalar
SetColScalar(t, c, v) == SetCol(t, c, [k \in 1..NRows(t) |-> v])

\* pd.get_dummies(df[target], prefix=prefix): one indicator column per
\* observed level, in sorted level order; sortedLevels lists the levels in
\* that order and labels gives str(level) for each of them
GetDummies(t, target, prefix, sortedLevels, labels) ==
    LET observed == {t.rows[k][target] : k \in 1..NRows(t)}
        present == SelectSeq(Positions(Len(sortedLevels)),
                             LAMBDA j : sortedLevels[j] \in observed)
        names == [j \in 1..Len(present) |-> prefix \o "_" \o labels[present[j]]]
        nameOf(v) == prefix \o "_" \o
                     labels[CHOOSE j \in 1..Len(sortedLevels) : sortedLevels[j] = v]
    IN [cols |-> names,
        index |-> t.index,
        rows |-> [k \in 1..NRows(t) |->
                    [c \in Range(names) |->
                        IF c = nameOf(t.rows[k][target]) THEN 1 ELSE 0]]]

\* left.join(right): the columns of right appended, rows matched on the
\* index label
Join(left, right) ==
    LET newcols == left.cols \o right.cols
        match(k) == CHOOSE j \in 1..NRows(right) : right.index[j] = left.index[k]
    IN [cols |-> newcols,
        index |-> left.index,
        rows |-> [k \in 1..NRows(left) |->
                    [c \in Range(newcols) |->
                        IF c \in Range(left.cols) THEN left.rows[k][c]
                        ELSE right.rows[match(k)][c]]]]

\* groups whose rows are renumbered from 0
GroupBy_Renumbered(t) ==
    [s \in {t.rows[k]["Store"] : k \in 1..NRows(t)} |->
        LET g == TakeRows(t, SelectSeq(Positions(NRows(t)), LAMBDA k : t.rows[k]["Store"] = s))
        IN SetCol(g, "Id", [j \in 1..NRows(g) |-> j - 1])]

\* df.groupby('Store'): store key -> sub-table, row order and labels kept
GroupKeys(t) == {t.rows[k]["Store"] : k \in 1..NRows(t)}
GroupBy(t) ==
    [s \in GroupKeys(t) |->
        TakeRows(t, SelectSeq(Positions(NRows(t)), LAMBDA k : t.rows[k]["Store"] = s))]

\* an assignment in place of an append
SeriesAppend_Overwrite(s, other) == other

\* series.append(other)
SeriesAppend(s, other) ==
    [index |-> s.index \o other.index, values |-> s.values \o other.values]


-----------------------------------------------------------------------------
(* hw3-rossmann.py: feature engineering *)

\* a raw StateHoliday cell: read_csv yields the integer 0 for a column that
\* holds only zeros and strings otherwise
IntCell(n) == [kind |-> "int", i |-> n, s |-> ""]
StrCell(x) == [kind |-> "str", i |-> 0, s |-> x]

\* astype(str) on one cell
AsStr(c) == IF c.kind = "int" THEN ToString(c.i) ELSE c.s

HolidayLevels == <<"0", "a", "b", "c">>
DayLevels == <<1, 2, 3, 4, 5, 6, 7>>
DayLabels == [j \in 1..Len(DayLevels) |-> ToString(DayLevels[j])]

\* a filter that keeps the rows flagged 1 instead of dropping those flagged 0
RemoveClosedStores_KeepOnes(t) ==
    TakeRows(t, SelectSeq(Positions(NRows(t)), LAMBDA k : t.rows[k]["Open"] = 1))

\* a filter that keeps every row
RemoveClosedStores_Nothing(t) == t

RemoveClosedStores(t) ==
    TakeRows(t, SelectSeq(Positions(NRows(t)), LAMBDA k : t.rows[k]["Open"] # 0))

\* dummy = get_dummies(...); df.drop([target], inplace=True); df.join(dummy)
OneHotEncode(t, target, prefix, sortedLevels, labels) ==
    Join(DropCols(t, {target}), GetDummies(t, target, prefix, sortedLevels, labels))

\* no alignment at all
AlignColumns_Skipped(t, required) == t

\* df[var] = 0 without the membership test
RECURSIVE AlignColumns_Unconditional(_, _)
AlignColumns_Unconditional(t, required) ==
    IF required = <<>> THEN t
    ELSE AlignColumns_Unconditional(SetColScalar(t, Head(required), 0), Tail(required))

\* for var in required: if var not in df.columns.values: df[var] = 0
RECURSIVE AlignColumns(_, _)
AlignColumns(t, required) ==
    IF required = <<>> THEN t
    ELSE AlignColumns(IF HasCol(t, Head(required)) THEN t
                      ELSE SetColScalar(t, Head(required), 0),
                      Tail(required))

\* replace([0], [0.0001]) on one cell, the result in units of 1/Unit
ReplaceZero(v) == IF v = 0 THEN Floor ELSE v * Unit

\* the fraction of log2(y / 2^14), for a mantissa 2^14 <= y < 2^15, to the
\* given number of binary digits: squaring the mantissa doubles its
\* logarithm, and the digit is 1 when the square reaches 2
RECURSIVE FracBits(_, _)
FracBits(y, bits) ==
    IF bits = 0 THEN 0
    ELSE LET sq == (y * y) \div 16384
         IN IF sq >= 32768 THEN Pow2Int(bits - 1) + FracBits(sq \div 2, bits - 1)
            ELSE FracBits(sq, bits - 1)

\* log2 of a positive integer in units of 1/1024
Log2Int(n) ==
    LET e == ILog2(n)
        y == IF e <= 14 THEN n * Pow2Int(14 - e) ELSE n \div Pow2Int(e - 14)
    IN 1024 * e + FracBits(y, 10)

\* the natural logarithm in the place of the binary one
Log2_Natural(x) == (693 * ((100 * (Log2Int(x) - Log2Int(Unit)) + 512) \div 1024)) \div 1000

\* np.log2 on one cell given in units of 1/Unit, the result rounded to
\* hundredths: log2(x / Unit) = log2(x) - log2(Unit)
Log2(x) == (100 * (Log2Int(x) - Log2Int(Unit)) + 512) \div 1024

\* 2^(a/10) and 2^(b/100) for a, b in 0..9, in units of 1/Unit
Pow2Tenths == <<10000, 10718, 11487, 12311, 13195, 14142, 15157, 16245, 17411, 18661>>
Pow2Hundredths == <<10000, 10070, 10140, 10210, 10281, 10353, 10425, 10497, 10570, 10644>>

\* np.power(2, p) for p in hundredths, the result in units of 1/Unit,
\* rounded: p = 100 k + 10 a + b with 0 <= a, b <= 9
Pow2(p) ==
    LET k == p \div 100
        f == p % 100
        m == (Pow2Tenths[(f \div 10) + 1] * Pow2Hundredths[(f % 10) + 1] + Unit \div 2)
                \div Unit
    IN IF k >= 0 THEN m * Pow2Int(k)
       ELSE (m + Pow2Int((0 - k) - 1)) \div Pow2Int(0 - k)

LogColumn(t, c) ==
    SetCol(t, c, [k \in 1..NRows(t) |-> Log2(ReplaceZero(t.rows[k][c]))])

\* prepare_data, lines 46-50
EncodeHoliday(raw, to_drop) ==
    LET d == DropCols(raw, to_drop)
        s == SetCol(d, "StateHoliday",
                    [k \in 1..NRows(d) |-> AsStr(d.rows[k]["StateHoliday"])])
    IN OneHotEncode(s, "StateHoliday", "StateHoliday", HolidayLevels, HolidayLevels)

\* prepare_data, lines 56-60
EncodeDay(t) ==
    OneHotEncode(LogColumn(t, "Customers"), "DayOfWeek", "Day", DayLevels, DayLabels)

\* prepare_data, lines 66-73
FinishPrepare(t, y) ==
    LET withId == SetCol(t, "Id", t.index)
    IN IF y THEN LogColumn(withId, "Sales") ELSE withId

PrepareData(raw, to_drop, y) ==
    FinishPrepare(
        AlignColumns(EncodeDay(AlignColumns(EncodeHoliday(raw, to_drop), HolidayVars)),
                     DayVars),
        y)

\* closed taken as "not flagged 1"
ExtractClosedStoreIds_NotOne(t) ==
    Column(TakeRows(t, SelectSeq(Positions(NRows(t)), LAMBDA k : t.rows[k]["Open"] # 1)),
           "Id")

\* df[df['Open'] == 0]['Id']
ExtractClosedStoreIds(t) ==
    Column(TakeRows(t, SelectSeq(Positions(NRows(t)), LAMBDA k : t.rows[k]["Open"] = 0)),
           "Id")

\* a split that filters and drops on the caller's table itself
SplitOpenClosed_InPlace(t) ==
    [closed_store_ids |-> ExtractClosedStoreIds(t),
     test_df |-> DropCols(RemoveClosedStores(t), {"Open"}),
     caller |-> DropCols(RemoveClosedStores(t), {"Open"})]

\* a split that drops the Open column and keeps the closed rows
SplitOpenClosed_NoFilter(t) ==
    [closed_store_ids |-> ExtractClosedStoreIds(t),
     test_df |-> DropCols(t, {"Open"}),
     caller |-> t]

\* split_open_closed: the two results, and the caller's table object as the
\* call leaves it (boolean indexing and drop without inplace build new
\* objects, so the argument is not touched)
SplitOpenClosed(t) ==
    [closed_store_ids |-> ExtractClosedStoreIds(t),
     test_df |-> DropCols(RemoveClosedStores(t), {"Open"}),
     caller |-> t]

-----------------------------------------------------------------------------
(* The regressor: an opaque fit/predict capability.  The stand-in keeps    *)
(* what sklearn keeps (the number of features and parameters derived from  *)
(* the training data) and predicts from the feature values by column       *)
(* position, as sklearn does on the underlying array.                      *)

Features(t, k) == [j \in 1..Len(t.cols) |-> t.rows[k][t.cols[j]]]

Fit(model_type, train_x, train_y) ==
    [model_type |-> model_type,
     n_features |-> Len(train_x.cols),
     intercept |-> SumSeq(train_y.values) \div 100 + NRows(train_x)]

PredictRow(m, x) ==
    100 * ((m.intercept + SumSeq([j \in 1..Len(x) |-> j * x[j]])) % PredRange)

Predict(m, test_x) == [k \in 1..NRows(test_x) |-> PredictRow(m, Features(test_x, k))]

\* model.score: how many of the rows the model predicts exactly
Score(m, x, y) ==
    Cardinality({k \in 1..NRows(x) : PredictRow(m, Features(x, k)) = y.values[k]})

NoModel == [model_type |-> "", n_features |-> 0, intercept |-> 0]

-----------------------------------------------------------------------------
(* hw3-rossmann.py: train_many_models *)

TrainX(current_store) == DropCols(current_store, {"Id", "Sales", "Store", "Open"})
TrainY(current_store) == Column(current_store, "Sales")
TestX(test_store) == DropCols(test_store, {"Id", "Store"})

\* predictions attached to the store's Ids in reverse row order
StorePredictions_Reversed(m, test_store) ==
    LET ids == Column(test_store, "Id").values
    IN [index |-> [k \in 1..Len(ids) |-> ids[Len(ids) + 1 - k]],
        values |-> Predict(m, TestX(test_store))]

\* pd.Series(test_y, index=open_store_ids)
StorePredictions(m, test_store) ==
    [index |-> Column(test_store, "Id").values, values |-> Predict(m, TestX(test_store))]

\* save_for_submission_csv: the rows written to outfile
Submission(closed, open_sales) ==
    [j \in 1..Len(open_sales.index) |->
        [Id |-> open_sales.index[j] + 1, Sales |-> Pow2(open_sales.values[j])]]
    \o
    [j \in 1..Len(closed.index) |->
        [Id |-> closed.values[j] + 1, Sales |-> ClosedSales * Unit]]

-----------------------------------------------------------------------------
(* Input tables, as read_csv returns them *)

TrainRawCols == <<"Store", "DayOfWeek", "Date", "Sales", "Customers", "Open", "Promo",
                  "StateHoliday">>
TestRawCols == <<"Store", "DayOfWeek", "Date", "Customers", "Open", "Promo",
                 "StateHoliday">>

\* read_csv: a RangeIndex, and a StateHoliday column of integers when every
\* cell of it is 0
ReadCsv(cols, rowseq) ==
    LET allZero == \A k \in 1..Len(rowseq) : rowseq[k]["StateHoliday"] = "0"
    IN [cols |-> cols,
        index |-> [k \in 1..Len(rowseq) |-> k - 1],
        rows |-> [k \in 1..Len(rowseq) |->
                    [c \in Range(cols) |->
                        IF c = "StateHoliday"
                        THEN IF allZero THEN IntCell(0) ELSE StrCell(rowseq[k][c])
                        ELSE rowseq[k][c]]]]

TrainRowAt(k, s, o) ==
    [Store |-> s, DayOfWeek |-> 8 - k, Date |-> k,
     Sales |-> IF o = 0 THEN 0 ELSE Pow2Int(k + s),
     Customers |-> IF o = 0 THEN 0 ELSE Pow2Int(k),
     Open |-> o, Promo |-> (k + 1) % 2, StateHoliday |-> "0"]

TestRowAt(k, s, o) ==
    [Store |-> s, DayOfWeek |-> k, Date |-> k,
     Customers |-> IF o = 0 THEN 0 ELSE Pow2Int(k),
     Open |-> o, Promo |-> k % 2,
     StateHoliday |-> IF k = 1 THEN "0" ELSE "a"]

MasterOpen == <<1, 0, NaN, 1, 1, 0, 1>>

MasterTrainRow(k) ==
    [Store |-> 1 + (k % 2), DayOfWeek |-> k, Date |-> k,
     Sales |-> IF k = 5 THEN 0 ELSE Pow2Int(k),
     Customers |-> IF k = 5 THEN 0 ELSE Pow2Int(k % 3),
     Open |-> IF k = 5 THEN 0 ELSE 1, Promo |-> k % 2,
     StateHoliday |-> HolidayLevels[((k - 1) % 4) + 1]]

MasterTestRow(k) ==
    [Store |-> 1 + ((k \div 2) % 2), DayOfWeek |-> k, Date |-> k,
     Customers |-> IF MasterOpen[k] = 0 THEN 0 ELSE Pow2Int(k % 2),
     Open |-> MasterOpen[k], Promo |-> (k + 1) % 2,
     StateHoliday |-> HolidayLevels[((k + 1) % 4) + 1]]

-----------------------------------------------------------------------------
(* The run script *)

InitControl ==
    /\ pc = "pd_46"
    /\ has_y = TRUE
    /\ df = NoTable
    /\ run = 1
    /\ closed_store_ids = EmptySeries
    /\ test_df = NoTable
    /\ train_stores = <<>>
    /\ test_stores = <<>>
    /\ pending = {}
    /\ open_store_sales = EmptySeries
    /\ train_scores = <<>>
    /\ model = NoModel
    /\ files = <<>>

\* short tables, every assignment of stores and Open flags to their rows
Init ==
    /\ InitControl
    /\ \E n \in TrainSizes, m \in 1..MaxTestRows :
         \E ts \in [1..n -> Stores], to \in [1..n -> {0, 1}],
            es \in [1..m -> Stores], eo \in [1..m -> {0, 1, NaN}] :
              /\ train = ReadCsv(TrainRawCols, [k \in 1..n |-> TrainRowAt(k, ts[k], to[k])])
              /\ test = ReadCsv(TestRawCols, [k \in 1..m |-> TestRowAt(k, es[k], eo[k])])

\* tables that are sub-sequences of two week-long tables: every set of
\* DayOfWeek levels and every set of StateHoliday levels on either side
InitLevels ==
    /\ InitControl
    /\ \E A \in (SUBSET (1..7)) \ {{}}, B \in (SUBSET (1..7)) \ {{}} :
         LET a == SeqOfSet(A, Positions(7))
             b == SeqOfSet(B, Positions(7))
         IN /\ train = ReadCsv(TrainRawCols, [k \in 1..Len(a) |-> MasterTrainRow(a[k])])
            /\ test = ReadCsv(TestRawCols, [k \in 1..Len(b) |-> MasterTestRow(b[k])])

\* prepare_data, lines 46-50, on the table the script passes
PrepareHoliday ==
    /\ pc = "pd_46"
    /\ df' = EncodeHoliday(IF has_y THEN train ELSE test, {"Date"})
    /\ pc' = "pd_51"
    /\ UNCHANGED <<train_scores, has_y, train, test, run, closed_store_ids, test_df, train_stores,
                   test_stores, pending, open_store_sales, model, files>>

\* prepare_data, lines 51-53
AlignHoliday ==
    /\ pc = "pd_51"
    /\ df' = AlignColumns(df, HolidayVars)
    /\ pc' = "pd_56"
    /\ UNCHANGED <<train_scores, has_y, train, test, run, closed_store_ids, test_df, train_stores,
                   test_stores, pending, open_store_sales, model, files>>

\* prepare_data, lines 56-60
PrepareDay ==
    /\ pc = "pd_56"
    /\ df' = EncodeDay(df)
    /\ pc' = "pd_61"
    /\ UNCHANGED <<train_scores, has_y, train, test, run, closed_store_ids, test_df, train_stores,
                   test_stores, pending, open_store_sales, model, files>>

\* prepare_data, lines 61-63
AlignDay ==
    /\ pc = "pd_61"
    /\ df' = AlignColumns(df, DayVars)
    /\ pc' = "pd_66"
    /\ UNCHANGED <<train_scores, has_y, train, test, run, closed_store_ids, test_df, train_stores,
                   test_stores, pending, open_store_sales, model, files>>

\* prepare_data, lines 66-73, returning to script lines 316-317
ReturnTrain ==
    /\ pc = "pd_66"
    /\ has_y
    /\ train' = RemoveClosedStores(FinishPrepare(df, TRUE))
    /\ has_y' = FALSE
    /\ df' = NoTable
    /\ pc' = "pd_46"
    /\ UNCHANGED <<train_scores, test, run, closed_store_ids, test_df, train_stores,
                   test_stores, pending, open_store_sales, model, files>>

\* prepare_data, lines 66-73, returning to script line 319
ReturnTest ==
    /\ pc = "pd_66"
    /\ ~has_y
    /\ test' = FinishPrepare(df, FALSE)
    /\ df' = NoTable
    /\ pc' = "tmm_112"
    /\ UNCHANGED <<train_scores, has_y, train, run, closed_store_ids, test_df, train_stores,
                   test_stores, pending, open_store_sales, model, files>>

\* a loop over the stores that both tables have
LoopKeys_Common(trainStores, testStores) == (DOMAIN testStores) \cap (DOMAIN trainStores)

\* for i in test_stores
LoopKeys(trainStores, testStores) == DOMAIN testStores

\* train_many_models, lines 112-120
TrainManyModelsBegin ==
    /\ pc = "tmm_112"
    /\ LET split == SplitOpenClosed(test)
       IN /\ closed_store_ids' = split.closed_store_ids
          /\ test_df' = split.test_df
          /\ test' = split.caller
          /\ train_stores' = GroupBy(train)
          /\ test_stores' = GroupBy(split.test_df)
          /\ pending' = LoopKeys(GroupBy(train), GroupBy(split.test_df))
    /\ open_store_sales' = EmptySeries
    /\ train_scores' = <<>>
    /\ model' = NoModel
    /\ pc' = "tmm_121"
    /\ UNCHANGED <<has_y, df, train, run, files>>

\* what makes an iteration raise: train_stores[i] (KeyError), or a
\* prediction matrix that is not as wide as the fitted one (ValueError)
IterationRaises(i) ==
    IF i \notin DOMAIN train_stores THEN TRUE
    ELSE Len(TrainX(train_stores[i]).cols) # Len(TestX(test_stores[i]).cols)

\* train_many_models, lines 121-153: one iteration of the loop over
\* test_stores, whose keys come in the order of a dict
StoreIteration ==
    /\ pc = "tmm_121"
    /\ \E i \in pending :
         /\ ~IterationRaises(i)
         /\ LET m == Fit(ModelTypes[run], TrainX(train_stores[i]), TrainY(train_stores[i]))
            IN /\ model' = m
               /\ train_scores' = Append(train_scores,
                        Score(m, TrainX(train_stores[i]), TrainY(train_stores[i])))
               /\ open_store_sales' =
                    SeriesAppend(open_store_sales, StorePredictions(m, test_stores[i]))
         /\ pending' = pending \ {i}
    /\ UNCHANGED <<pc, has_y, df, train, test, run, closed_store_ids, test_df,
                   train_stores, test_stores, files>>

\* train_many_models, line 122: the iteration raises and the script ends
StoreIterationRaises ==
    /\ pc = "tmm_121"
    /\ \E i \in pending : IterationRaises(i)
    /\ pc' = "error"
    /\ UNCHANGED <<train_scores, has_y, df, train, test, run, closed_store_ids, test_df,
                   train_stores, test_stores, pending, open_store_sales, model, files>>

\* train_many_models, lines 155-160, and the script's next call
SaveForSubmission ==
    /\ pc = "tmm_121"
    /\ pending = {}
    /\ files' = [f \in DOMAIN files \cup {Outfiles[run]} |->
                    IF f = Outfiles[run] THEN Submission(closed_store_ids, open_store_sales)
                    ELSE files[f]]
    /\ pc' = IF run < NumRuns THEN "tmm_112" ELSE "done"
    /\ run' = IF run < NumRuns THEN run + 1 ELSE run
    /\ UNCHANGED <<train_scores, has_y, df, train, test, closed_store_ids, test_df,
                   train_stores, test_stores, pending, open_store_sales, model>>

Next ==
    \/ PrepareHoliday
    \/ AlignHoliday
    \/ PrepareDay
    \/ AlignDay
    \/ ReturnTrain
    \/ ReturnTest
    \/ TrainManyModelsBegin
    \/ StoreIteration
    \/ StoreIterationRaises
    \/ SaveForSubmission

Spec == Init /\ [][Next]_vars
SpecLevels == InitLevels /\ [][Next]_vars

-----------------------------------------------------------------------------
(* The target transform and its inverse, applied to a column of sales *)

SalesTable(values) ==
    [cols |-> <<"Sales">>,
     index |-> [k \in 1..Len(values) |-> k - 1],
     rows |-> [k \in 1..Len(values) |-> [c \in {"Sales"} |-> values[k]]]]

\* a two-row sales column, every pair of sales values
InitSales ==
    /\ pc = "pd_66"
    /\ has_y = TRUE
    /\ run = 1
    /\ test = NoTable
    /\ closed_store_ids = EmptySeries
    /\ test_df = NoTable
    /\ train_stores = <<>>
    /\ test_stores = <<>>
    /\ pending = {}
    /\ open_store_sales = EmptySeries
    /\ train_scores = <<>>
    /\ model = NoModel
    /\ files = <<>>
    /\ \E v \in [1..2 -> 0..MaxSales] :
         /\ train = SalesTable(v)
         /\ df = SalesTable(v)

\* prepare_data with has_y = True: the Id column, then the Sales column
\* with 0 replaced and log2 taken
NormaliseSales ==
    /\ pc = "pd_66"
    /\ has_y
    /\ df' = FinishPrepare(df, has_y)
    /\ pc' = "sfs_94"
    /\ UNCHANGED <<train_scores, has_y, train, test, run, closed_store_ids, test_df, train_stores,
                   test_stores, pending, open_store_sales, model, files>>

\* save_for_submission_csv on the normalised values as the open-store
\* series, no closed rows
InverseSales ==
    /\ pc = "sfs_94"
    /\ LET predicted == Column(df, "Sales")
       IN /\ open_store_sales' = predicted
          /\ files' = [f \in {Outfiles[run]} |-> Submission(closed_store_ids, predicted)]
    /\ pc' = "sfs_100"
    /\ UNCHANGED <<train_scores, has_y, df, train, test, run, closed_store_ids, test_df, train_stores,
                   test_stores, pending, model>>

NextSales ==
    \/ NormaliseSales
    \/ InverseSales

SpecSales == InitSales /\ [][NextSales]_vars

-----------------------------------------------------------------------------
(* Vocabulary of the properties *)

\* positions (1-based) of the test rows by their Open flag
ClosedPositions == {k \in 1..NRows(test) : test.rows[k]["Open"] = 0}
OpenPositions == {k \in 1..NRows(test) : test.rows[k]["Open"] # 0}

\* the record identity of the test row at position k: its 0-based position
Identity(k) == k - 1

\* rows of a written submission that carry the identity of position k
RowsOf(sub, k) == {j \in 1..Len(sub) : sub[j].Id = Identity(k) + 1}

\* C1: a written submission holds exactly one row per test record, with
\* Id = row position + 1, and no Id from outside the test table
C1_AssemblyComplete ==
    \A f \in DOMAIN files :
        /\ Len(files[f]) = NRows(test)
        /\ \A k \in 1..NRows(test) : Cardinality(RowsOf(files[f], k)) = 1
        /\ \A j \in 1..Len(files[f]) : files[f][j].Id \in 1..NRows(test)

C1_Witness ==
    \E f \in DOMAIN files :
        /\ ClosedPositions # {}
        /\ Cardinality({test.rows[k]["Store"] : k \in OpenPositions}) >= 2

\* the model that store s gets in invocation r: fitted on the rows of the
\* training table whose Store is s
StoreModel(r, s) ==
    LET rowsOfS == TakeRows(train, SelectSeq(Positions(NRows(train)),
                                             LAMBDA k : train.rows[k]["Store"] = s))
    IN Fit(ModelTypes[r], TrainX(rowsOfS), TrainY(rowsOfS))

\* the feature row of the test record at position k, as predict sees it
FeatureRow(k) == Features(DropCols(test, {"Open", "Id", "Store"}), k)

\* the invocation that wrote file f
RunOf(f) == CHOOSE r \in 1..NumRuns : Outfiles[r] = f

\* C2: in a written submission a closed test record has Sales 1, and an
\* open one has 2^p for the prediction p that its own store's model makes
\* for its own feature row
C2_SalesValues ==
    \A f \in DOMAIN files : \A k \in 1..NRows(test) : \A j \in RowsOf(files[f], k) :
        files[f][j].Sales =
            IF k \in ClosedPositions THEN ClosedSales * Unit
            ELSE Pow2(PredictRow(StoreModel(RunOf(f), test.rows[k]["Store"]), FeatureRow(k)))

\* a store with two open test rows that get different predictions, next to
\* a closed row
C2_Witness ==
    \E f \in DOMAIN files : \E k1, k2 \in OpenPositions :
        /\ ClosedPositions # {}
        /\ test.rows[k1]["Store"] = test.rows[k2]["Store"]
        /\ \E j1 \in RowsOf(files[f], k1), j2 \in RowsOf(files[f], k2) :
              files[f][j1].Sales # files[f][j2].Sales

\* identities of the test rows split_open_closed was given
AllIds == {test.rows[k]["Id"] : k \in 1..NRows(test)}

\* C3: closed_ids and open_table share no identity and together hold every
\* identity of the input once; closed_ids are the Ids of the rows with
\* Open == 0; open_table has no Open column
C3_SplitPartition ==
    pc = "tmm_121" =>
        LET closed == Range(closed_store_ids.values)
            open == {test_df.rows[k]["Id"] : k \in 1..NRows(test_df)}
        IN /\ closed \cap open = {}
           /\ closed \cup open = AllIds
           /\ Len(closed_store_ids.values) + NRows(test_df) = NRows(test)
           /\ Cardinality(AllIds) = NRows(test)
           /\ closed = {test.rows[k]["Id"] : k \in ClosedPositions}
           /\ ~HasCol(test_df, "Open")
           /\ HasCol(test, "Open")

\* a table with a closed row, a row flagged 1 and a row whose flag is missing
C3_Witness ==
    /\ pc = "tmm_121"
    /\ ClosedPositions # {}
    /\ \E k \in OpenPositions : test.rows[k]["Open"] = 1
    /\ \E k \in OpenPositions : test.rows[k]["Open"] = NaN

\* stores whose iteration has completed
Processed == (DOMAIN test_stores) \ pending

IsPrefix(a, b) == Len(a) <= Len(b) /\ SubSeq(b, 1, Len(a)) = a

KeysAreProcessedOpenIds ==
    /\ Range(open_store_sales.index) =
          {test.rows[k]["Id"] : k \in {x \in OpenPositions : test.rows[x]["Store"] \in Processed}}
    /\ Cardinality(Range(open_store_sales.index)) = Len(open_store_sales.index)
    /\ Len(open_store_sales.values) = Len(open_store_sales.index)

\* C4: in the loop the keys of open_store_sales are the identities of the
\* open test rows of the stores processed so far, each once; an iteration
\* keeps the entries it found; when no store is left the keys are all open
\* test identities
C4_LoopInvariant ==
    [][pc' = "tmm_121" =>
          /\ KeysAreProcessedOpenIds'
          /\ (pc = "tmm_121" =>
                /\ IsPrefix(open_store_sales.index, open_store_sales'.index)
                /\ IsPrefix(open_store_sales.values, open_store_sales'.values))
          /\ (pending' = {} =>
                Range(open_store_sales'.index) = {test'.rows[k]["Id"] : k \in OpenPositions'})]_vars

\* one store done, with entries, and another still to come
C4_Witness ==
    /\ pc = "tmm_121"
    /\ pending # {}
    /\ Len(open_store_sales.index) >= 2

IndicatorVars == HolidayVars \o DayVars

\* the indicator name that prepare_data gives to the level of raw row k
HolidayVarOf(raw, k) == "StateHoliday_" \o AsStr(raw.rows[k]["StateHoliday"])
DayVarOf(raw, k) == "Day_" \o ToString(raw.rows[k]["DayOfWeek"])

\* the table prepare_data is working on, still unprepared in the script
RawInput == IF has_y THEN train ELSE test

\* column c exists and is 0 in every row of t
AllZero(t, c) == HasCol(t, c) /\ \A k \in 1..NRows(t) : t.rows[k][c] = 0
Observed(t, c) == HasCol(t, c) /\ \E k \in 1..NRows(t) : t.rows[k][c] = 1

\* C5: train_x and test_x have the same set of feature columns for every
\* store of the loop, and after alignment every indicator of the fixed
\* lists is a column that is 1 exactly in the rows of its level, hence 0 in
\* every row when the level is not observed on that side
C5_SameFeatureSet ==
    /\ pc = "pd_66" =>
          \A c \in Range(IndicatorVars) :
              /\ HasCol(df, c)
              /\ \A k \in 1..NRows(df) :
                    df.rows[k][c] =
                        IF c \in {HolidayVarOf(RawInput, k), DayVarOf(RawInput, k)} THEN 1 ELSE 0
    /\ pc = "tmm_121" =>
          \A i \in (DOMAIN test_stores) \cap (DOMAIN train_stores) :
              Range(TrainX(train_stores[i]).cols) = Range(TestX(test_stores[i]).cols)

\* a store of the loop, with a level seen only in the train table and a
\* level seen only in the test table, for both encoded columns
C5_Witness ==
    /\ pc = "tmm_121"
    /\ pending \cap DOMAIN train_stores # {}
    /\ \E c \in Range(HolidayVars) : Observed(train, c) /\ AllZero(test, c)
    /\ \E c \in Range(HolidayVars) : Observed(test, c) /\ AllZero(train, c)
    /\ \E c \in Range(DayVars) : Observed(train, c) /\ AllZero(test, c)
    /\ \E c \in Range(DayVars) : Observed(test, c) /\ AllZero(train, c)

\* what one alignment step owes: the old columns first and unchanged, then
\* exactly the missing required columns, all 0; nothing at all when none
\* is missing; and nothing more when applied again
AlignmentContract(old, new, required) ==
    LET missing == SelectSeq(required, LAMBDA c : ~HasCol(old, c))
    IN /\ new.cols = old.cols \o missing
       /\ new.index = old.index
       /\ \A k \in 1..NRows(old) : \A c \in Range(old.cols) : new.rows[k][c] = old.rows[k][c]
       /\ \A k \in 1..NRows(old) : \A c \in Range(missing) : new.rows[k][c] = 0
       /\ (missing = <<>> => new = old)
       /\ AlignColumns(new, required) = new

\* C6: the alignment step adds exactly the missing indicator columns, each
\* 0 in every row, leaves existing columns and values unchanged, is a no-op
\* on a table that has them all, and is idempotent
C6_AlignmentIdempotent ==
    [][/\ (pc = "pd_51" /\ pc' = "pd_56") => AlignmentContract(df, df', HolidayVars)
       /\ (pc = "pd_61" /\ pc' = "pd_66") => AlignmentContract(df, df', DayVars)]_vars

\* a table on which the StateHoliday alignment was a no-op (all four levels
\* observed) and the DayOfWeek alignment had columns to add
C6_Witness ==
    /\ pc = "pd_66"
    /\ \A c \in Range(HolidayVars) : Observed(df, c)
    /\ \E c \in Range(DayVars) : AllZero(df, c)
    /\ \E c \in Range(DayVars) : Observed(df, c)

\* places (store key, row) of the sub-tables of g that hold identity id
PlacesOf(g, id, n) ==
    {q \in (DOMAIN g) \X (1..n) :
        q[2] <= NRows(g[q[1]]) /\ g[q[1]].rows[q[2]]["Id"] = id}

\* g partitions t by Store: every sub-table holds only rows of its key, and
\* every row of t is found in exactly one place, in the sub-table of its
\* own Store, unchanged
IsPartition(g, t) ==
    /\ \A s \in DOMAIN g : \A j \in 1..NRows(g[s]) : g[s].rows[j]["Store"] = s
    /\ \A k \in 1..NRows(t) :
          LET places == PlacesOf(g, t.rows[k]["Id"], NRows(t))
          IN /\ Cardinality(places) = 1
             /\ \A q \in places : q[1] = t.rows[k]["Store"] /\ g[q[1]].rows[q[2]] = t.rows[k]
    /\ UNION {{g[s].rows[j]["Id"] : j \in 1..NRows(g[s])} : s \in DOMAIN g}
          = {t.rows[k]["Id"] : k \in 1..NRows(t)}

\* C7: grouping by Store puts every row in exactly one sub-table, that of
\* its own Store, with its Id; the Ids of the sub-tables are those of the
\* table and none occurs twice
C7_PartitionComplete ==
    pc = "tmm_121" => IsPartition(train_stores, train) /\ IsPartition(test_stores, test_df)

\* a test table whose rows of two stores are interleaved
C7_Witness ==
    /\ pc = "tmm_121"
    /\ Cardinality(DOMAIN test_stores) = 2
    /\ Cardinality(DOMAIN train_stores) = 2
    /\ \E s \in DOMAIN test_stores : test_stores[s].index = <<0, 2>>

\* stores with an open test row and no row in the training table
MissingStores ==
    {test.rows[k]["Store"] : k \in OpenPositions}
        \ {train.rows[k]["Store"] : k \in 1..NRows(train)}

InTraining == pc \in {"tmm_112", "tmm_121", "done", "error"}

\* C8: with a store that has an open test row and no training row, the
\* loop cannot get past that store, the invocation does not complete and
\* no submission is written
C8_NoSubmissionOnError ==
    /\ (InTraining /\ MissingStores # {}) =>
          /\ DOMAIN files = {}
          /\ pc # "done"
          /\ pc = "tmm_121" => MissingStores \subseteq pending
    /\ pc = "error" => DOMAIN files = {} /\ MissingStores # {}

\* the error came after another store's predictions had been accumulated
C8_Witness ==
    /\ pc = "error"
    /\ Len(open_store_sales.index) > 0
    /\ DOMAIN files = {}

\* C9 (as the specification states it): within the open rows and within
\* the closed rows of a written submission, Ids ascend
C9_GroupOrderPreserved ==
    \A f \in DOMAIN files : \A j1, j2 \in 1..Len(files[f]) :
        (/\ j1 < j2
         /\ (files[f][j1].Id \in OpenPositions) = (files[f][j2].Id \in OpenPositions))
            => files[f][j1].Id < files[f][j2].Id

\* C10: no step of a training invocation changes the train or the test
\* table of the script
C10_InputsUnchanged ==
    [][(pc \in {"tmm_112", "tmm_121"}) => (train' = train /\ test' = test)]_vars

\* the second invocation has split a test table that has closed rows
C10_Witness ==
    /\ pc = "tmm_121"
    /\ run = 2
    /\ Len(closed_store_ids.index) > 0
    /\ NRows(test_df) > 0
    /\ NRows(test) = NRows(test_df) + Len(closed_store_ids.index)
    /\ HasCol(test, "Open")


\* the powers of two among the sales values
IsPow2(v) == v > 0 /\ Pow2Int(ILog2(v)) = v

\* equal up to the resolution of a logarithm kept in hundredths
Close(a, b) == 1000 * (IF a > b THEN a - b ELSE b - a) <= 4 * b

\* C11: normalising a sales value (0 replaced by the floor 0.0001, then
\* log2) and inverting it (2 to that power) gives back a positive value v,
\* exactly when v is a power of two and within the tolerance of the
\* arithmetic otherwise; for v = 0 it gives the floor 0.0001 and not 0.
C11_RoundTrip ==
    (pc = "sfs_100") =>
        \A k \in 1..NRows(train) :
            LET v == train.rows[k]["Sales"]
                r == files[Outfiles[run]][k].Sales
            IN /\ files[Outfiles[run]][k].Id = k
               /\ IF v = 0
                  THEN /\ df.rows[k]["Sales"] = LogFloor
                       /\ r = Floor
                       /\ r # 0
                  ELSE /\ Close(r, v * Unit)
                       /\ IsPow2(v) => r = v * Unit

C11_Witness ==
    /\ pc = "sfs_100"
    /\ train.rows[1]["Sales"] = 0
    /\ train.rows[2]["Sales"] = 48
    /\ files[Outfiles[run]][1].Sales = Floor
    /\ files[Outfiles[run]][2].Sales # 0

\* the stores that have an open test row
OpenStores == {test.rows[k]["Store"] : k \in OpenPositions}

\* the predictions of model m for the open test rows of store s, under
\* their Ids and in the order of the rows
OwnPredictions(m, s) ==
    LET rowsOfS == SelectSeq(Positions(NRows(test)),
                             LAMBDA k : k \in OpenPositions /\ test.rows[k]["Store"] = s)
    IN [index |-> [j \in 1..Len(rowsOfS) |-> test.rows[rowsOfS[j]]["Id"]],
        values |-> [j \in 1..Len(rowsOfS) |-> PredictRow(m, FeatureRow(rowsOfS[j]))]]

\* C12: inside the loop one model has been fitted per processed store, the
\* processed stores all have an open test row (a store with closed test
\* rows only, or with training rows only, gets none), a loop that ends has
\* processed every store with an open test row, and each fit is a fresh
\* model of one unprocessed store, fitted on that store's training rows,
\* that makes that store's predictions
C12_OneModelPerStore ==
    /\ [](pc = "tmm_121" =>
            /\ Len(train_scores) = Cardinality(Processed)
            /\ Processed \subseteq OpenStores
            /\ pending = {} => Processed = OpenStores)
    /\ [][(pc = "tmm_121" /\ (train_scores' # train_scores \/ model' # model
                                \/ open_store_sales' # open_store_sales)) =>
            \E i \in OpenStores \ Processed :
                /\ pending' = pending \ {i}
                /\ Len(train_scores') = Len(train_scores) + 1
                /\ model' = StoreModel(run, i)
                /\ open_store_sales' =
                      SeriesAppend(open_store_sales, OwnPredictions(model', i))]_vars

\* the loop has ended with one model: two open test rows of one store, a
\* closed test row of the other, and training rows of both
C12_Witness ==
    /\ pc = "tmm_121"
    /\ pending = {}
    /\ Len(train_scores) = 1
    /\ OpenStores = {1}
    /\ Cardinality(OpenPositions) = 2
    /\ \E k \in ClosedPositions : test.rows[k]["Store"] = 2
    /\ {train.rows[k]["Store"] : k \in 1..NRows(train)} = {1, 2}
    /\ Len(open_store_sales.index) = 2

\* the positions of the open records of a table
OpenRecords(t) == SelectSeq(Positions(NRows(t)), LAMBDA k : t.rows[k]["Open"] # 0)

\* the positions of the rows of store s in a table
StoreRecords(t, s) == SelectSeq(Positions(NRows(t)), LAMBDA k : t.rows[k]["Store"] = s)

\* C13: the training table that leaves line 317 holds exactly the open
\* records of the table that was read, in their order, each with the Id of
\* its 0-based position in the table that was read; it is not changed
\* afterwards; the partition of store s is exactly its rows with Store = s,
\* and the model of an iteration is fitted on that partition
C13_FitRows ==
    /\ [][(pc = "pd_66" /\ has_y) =>
            LET kept == OpenRecords(train)
            IN /\ NRows(train') = Len(kept)
               /\ \A j \in 1..Len(kept) :
                    /\ train'.rows[j]["Id"] = kept[j] - 1
                    /\ train'.rows[j]["Store"] = train.rows[kept[j]]["Store"]
                    /\ train'.rows[j]["Open"] = train.rows[kept[j]]["Open"]
                    /\ train'.rows[j]["Sales"] =
                          Log2(ReplaceZero(train.rows[kept[j]]["Sales"]))]_vars
    /\ [][~has_y => train' = train]_vars
    /\ [](pc = "tmm_121" =>
            /\ \A k \in 1..NRows(train) : train.rows[k]["Open"] # 0
            /\ DOMAIN train_stores = {train.rows[k]["Store"] : k \in 1..NRows(train)}
            /\ \A s \in DOMAIN train_stores :
                  train_stores[s] = TakeRows(train, StoreRecords(train, s)))
    /\ [][(pc = "tmm_121" /\ pending' # pending) =>
            \E i \in pending :
                /\ pending' = pending \ {i}
                /\ model' = Fit(ModelTypes[run], TrainX(TakeRows(train, StoreRecords(train, i))),
                                TrainY(TakeRows(train, StoreRecords(train, i))))]_vars

\* a model has been fitted from a training table of both stores that has
\* lost a closed record: the Ids of its rows have a gap
C13_Witness ==
    /\ pc = "tmm_121"
    /\ model # NoModel
    /\ DOMAIN train_stores = {1, 2}
    /\ NRows(train) >= 3
    /\ \E j \in 1..NRows(train) : train.rows[j]["Id"] > j - 1

\* C14: for every store of the loop, train_x and test_x list the same
\* feature columns in the same order
C14_SameFeatureOrder ==
    pc = "tmm_121" =>
        \A i \in (DOMAIN test_stores) \cap (DOMAIN train_stores) :
            TrainX(train_stores[i]).cols = TestX(test_stores[i]).cols

=========================================================================
